---- MODULE Spec2Model ----
(***************************************************************************)
(* Model of the spaced-repetition scheduling engine of ace_english:         *)
(*   - services/fsrs.ts              FSRSScheduler (memory model, state     *)
(*                                   machine, fuzz, preview)                *)
(*   - services/vocabulary-detail.ts processWordReview, logReview,          *)
(*                                   updateBookProgressStats,               *)
(*                                   getTodayLearningSession                *)
(*   - the FSRS migration (SQL)      trg_update_book_stats; the services    *)
(*                                   never call get_due_cards_with_fuzz,    *)
(*                                   which is therefore no action here      *)
(*                                                                          *)
(* Numbers.  The code computes in IEEE doubles.  The model computes in      *)
(* fixed point: a real x is the integer round(x * SC), SC = 10000.  The     *)
(* elementary functions exp and ln are evaluated by series on that grid,    *)
(* so a value of the model is within a few 1/SC of the code's value.        *)
(* Times are integer minutes; a day is 1440 minutes.                        *)
(***************************************************************************)
EXTENDS Integers, Sequences, FiniteSets, TLC

(***************************************************************************)
(* Fixed-point arithmetic                                                   *)
(***************************************************************************)
SC == 100 * 100

\* Mutant: no floor, the second argument is returned.
MaxSecond(a, b) == b

Max(a, b) == IF a >= b THEN a ELSE b
Min(a, b) == IF a <= b THEN a ELSE b

\* a * b / SC without leaving 32 bits: both factors are split at SC.
Mul(a, b) ==
  LET a1 == a \div SC
      a0 == a % SC
      b1 == b \div SC
      b0 == b % SC
  IN a1 * b1 * SC + a1 * b0 + a0 * b1 + (a0 * b0) \div SC

\* (r * 10^n) \div b for 0 <= r < b, one decimal digit at a time.
RECURSIVE DivDigits(_, _, _, _)
DivDigits(r, b, n, acc) ==
  IF n = 0 THEN acc
  ELSE DivDigits((r * 10) % b, b, n - 1, acc * 10 + (r * 10) \div b)

\* a / b on the grid, b > 0; SC = 10^4.
Div(a, b) == (a \div b) * SC + DivDigits(a % b, b, 4, 0)

\* Math.round of a non-negative fixed-point number: an integer.
Round(x) == (x + SC \div 2) \div SC

\* Math.exp by its power series; arguments of the model lie in [-1.2, 2.2].
RECURSIVE ExpTerms(_, _, _, _)
ExpTerms(x, term, k, acc) ==
  IF k > 16 \/ term = 0 THEN acc
  ELSE LET t == Mul(term, x) \div k
       IN ExpTerms(x, t, k + 1, acc + t)

Exp(x) == ExpTerms(x, SC, 1, SC)

\* Math.log: x = m * 2^k with 1 <= m < 2, ln m = 2 artanh((m-1)/(m+1)).
LN2 == 6931

RECURSIVE LnReduce(_, _)
LnReduce(x, k) ==
  IF x >= 2 * SC THEN LnReduce(x \div 2, k + 1)
  ELSE IF x < SC THEN LnReduce(x * 2, k - 1)
  ELSE <<x, k>>

Ln(x) ==
  LET mk == LnReduce(x, 0)
      m  == mk[1]
      z  == ((m - SC) * SC) \div (m + SC)
      z2 == Mul(z, z)
      z3 == Mul(z, z2)
      z5 == Mul(z3, z2)
      z7 == Mul(z5, z2)
      z9 == Mul(z7, z2)
  IN 2 * (z + z3 \div 3 + z5 \div 5 + z7 \div 7 + z9 \div 9) + mk[2] * LN2

\* Math.pow(x, p) for x > 0.
Pow(x, p) == Exp(Mul(p, Ln(x)))

(***************************************************************************)
(* types/vocabulary.ts: parameters and step tables                          *)
(***************************************************************************)
\* DEFAULT_FSRS_PARAMS.w, times SC; w[i] of the code is W[i + 1].
W == << 4000, 6000, 24000, 58000, 49300, 9400, 8600, 100, 14900,
        1400, 9400, 21800, 500, 3400, 12600, 2900, 26100 >>

w(i) == W[i + 1]

\* DEFAULT_FSRS_PARAMS.requestRetention = 0.9, times SC.
requestRetention == 9000

\* DEFAULT_FSRS_PARAMS.maximumInterval, in days.
maximumInterval == 365

\* Mutant: one more step is asked for before graduation.
GraduationStepsOffByOne == 2 + 1

\* Mutant: no step is asked for before graduation.
GraduationStepsNone == 2 - 2

\* Mutant: two more steps are asked for before graduation.
GraduationStepsTwoMore == 2 + 2

LEARNING_GRADUATION_STEPS == 2

MinutesPerDay == 1440

\* The value of an expression the code leaves undefined (LEARNING_STEPS of a
\* key that is not in the table) and the Date built from it.
Undefined == 0 - 1
InvalidDate == 0 - 1

\* null, as the value of a timestamp column.
Null == 0 - 2

Ratings == 1..4

\* LEARNING_STEPS[rating], in minutes.
LEARNING_STEPS(rating) ==
  CASE rating = 1 -> 1
    [] rating = 2 -> 5
    [] rating = 3 -> 10
    [] rating = 4 -> 60
    [] OTHER -> Undefined

\* GRADE_TO_RATING
GRADE_TO_RATING(grade) ==
  CASE grade = "forgot" -> 1
    [] grade = "hard" -> 2
    [] grade = "good" -> 3
    [] grade = "easy" -> 4

Grades == {"forgot", "hard", "good", "easy"}

(***************************************************************************)
(* fsrs.ts: memory model                                                    *)
(***************************************************************************)
initDifficulty(rating) ==
  Max(1 * SC, Min(10 * SC, w(4) - (rating - 3) * w(5)))

initStability(rating) == Max(SC \div 10, w(rating - 1))

nextDifficulty(difficulty, rating) ==
  LET d0 == initDifficulty(rating)
      newD == Mul(w(7), d0) + Mul(SC - w(7), difficulty)
      meanReversion == Mul(w(7), d0 - newD)
  IN Max(1 * SC, Min(10 * SC, newD + meanReversion))

\* (1 + t / (9 S))^(-1); elapsedDays is a whole number of days.
retrievability(elapsedDays, stability) ==
  IF stability <= 0 THEN 0
  ELSE Div(SC, SC + Div(elapsedDays * SC, 9 * stability))

\* round(9 S (1/r - 1)), in days, computed as 9 S (1 - r) / r: in doubles
\* 1/0.9 - 1 is a little above 1/9, so a stability of k + 0.5 rounds up, as
\* it does here.
nextInterval(stability) ==
  IF stability <= 0 \/ requestRetention <= 0 \/ requestRetention >= SC THEN 1
  ELSE Round(Div(Mul(9 * stability, SC - requestRetention), requestRetention))

nextStabilitySuccess(difficulty, stability, retr, rating) ==
  LET hardPenalty == IF rating = 2 THEN w(15) ELSE SC
      easyBonus == IF rating = 4 THEN w(16) ELSE SC
      growth == Mul(Mul(Mul(Mul(Mul(Exp(w(8)), 11 * SC - difficulty),
                                    Pow(stability, -w(9))),
                                Exp(Mul(w(10), SC - retr)) - SC),
                            hardPenalty),
                        easyBonus) + SC
      newS == Mul(stability, growth)
  IN Max(SC \div 10, Min(newS, maximumInterval * SC))

\* Mutant: the value computed for the lapse is added to the stability.
nextStabilityFailureAdded(difficulty, stability, retr) ==
  LET newS == Mul(Mul(Mul(w(11), Pow(difficulty, -w(12))),
                      Pow(stability + SC, w(13)) - SC),
                  Exp(Mul(w(14), SC - retr)))
  IN Max(SC \div 10, stability + newS)

nextStabilityFailure(difficulty, stability, retr) ==
  LET newS == Mul(Mul(Mul(w(11), Pow(difficulty, -w(12))),
                      Pow(stability + SC, w(13)) - SC),
                  Exp(Mul(w(14), SC - retr)))
  IN Max(SC \div 10, Min(newS, stability))

(***************************************************************************)
(* fsrs.ts: interval fuzz.  Math.random() is the draw u / RandDen with      *)
(* u in 0 .. RandDen - 1; the model tries the two extreme draws.            *)
(***************************************************************************)
RandDen == 1000
Draws == {0, 999}

fuzzInterval(interval, u) ==
  IF interval <= 2 THEN interval
  ELSE LET fuzzRange == Max(1, Round(interval * (SC \div 20)))
           fuzz == (u * (2 * fuzzRange + 1)) \div RandDen - fuzzRange
       IN Max(1, interval + fuzz)

\* Mutant: the days are taken off the date.
addDaysBackwards(date, days) == date - days * MinutesPerDay

addDays(date, days) == date + days * MinutesPerDay

\* Mutant: the minutes are added as days.
addMinutesAsDays(date, minutes) ==
  IF minutes = Undefined THEN InvalidDate
  ELSE date + minutes * MinutesPerDay

addMinutes(date, minutes) ==
  IF minutes = Undefined THEN InvalidDate ELSE date + minutes

(***************************************************************************)
(* fsrs.ts: the transition function.  u1 and u2 are the draws of the first  *)
(* and the second call of fuzzInterval that a transition makes.             *)
(***************************************************************************)
\* Mutant: the phase flag is never cleared.
SchedulingResultPhaseStuck(st, d, s, r, sd, due, step, lp) ==
  [ state |-> st, difficulty |-> d, stability |-> s, retrievability |-> r,
    elapsed_days |-> 0, scheduled_days |-> sd, due_at |-> due,
    learning_step |-> step, is_learning_phase |-> TRUE ]

\* Mutant: a day is reported as elapsed.
SchedulingResultElapsedOne(st, d, s, r, sd, due, step, lp) ==
  [ state |-> st, difficulty |-> d, stability |-> s, retrievability |-> r,
    elapsed_days |-> 1, scheduled_days |-> sd, due_at |-> due,
    learning_step |-> step, is_learning_phase |-> lp ]

SchedulingResult(st, d, s, r, sd, due, step, lp) ==
  [ state |-> st, difficulty |-> d, stability |-> s, retrievability |-> r,
    elapsed_days |-> 0, scheduled_days |-> sd, due_at |-> due,
    learning_step |-> step, is_learning_phase |-> lp ]

\* The graduation record of reviewLearningPhase: scheduled_days and due_at
\* each call fuzzInterval.
Graduate(d, s, now, u1, u2) ==
  LET interval == Max(1, nextInterval(s))
  IN SchedulingResult("review", d, s, SC, fuzzInterval(interval, u1),
                      addDays(now, fuzzInterval(interval, u2)), 0, FALSE)

reviewLearningPhase(progress, rating, now, u1, u2) ==
  LET intervalMinutes == LEARNING_STEPS(rating)
  IN
  IF progress.state = "new" THEN
    LET newDifficulty == initDifficulty(rating)
        newStability == initStability(rating)
        nextStep == IF rating = 3 THEN 1 ELSE 0
    IN IF rating = 1 THEN
         SchedulingResult("learning", newDifficulty, newStability, SC, 0,
                          addMinutes(now, intervalMinutes), 0, TRUE)
       ELSE IF rating = 4 THEN
         Graduate(newDifficulty, newStability, now, u1, u2)
       ELSE IF nextStep >= LEARNING_GRADUATION_STEPS THEN
         Graduate(newDifficulty, newStability, now, u1, u2)
       ELSE
         SchedulingResult("learning", newDifficulty, newStability, SC, 0,
                          addMinutes(now, intervalMinutes), nextStep, TRUE)
  ELSE
    LET currentDifficulty ==
          IF progress.difficulty = 0 THEN initDifficulty(3)
          ELSE progress.difficulty
        currentStability ==
          IF progress.stability = 0 THEN initStability(3)
          ELSE progress.stability
        nextStep == progress.learning_step + (IF rating = 3 THEN 1 ELSE 0)
    IN IF rating = 1 THEN
         SchedulingResult("learning", currentDifficulty,
                          Max(SC \div 10, currentStability \div 2), SC, 0,
                          addMinutes(now, intervalMinutes), 0, TRUE)
       ELSE IF rating = 4 THEN
         Graduate(nextDifficulty(currentDifficulty, rating),
                  Max((currentStability * 3) \div 2, 1 * SC), now, u1, u2)
       ELSE IF nextStep >= LEARNING_GRADUATION_STEPS THEN
         Graduate(nextDifficulty(currentDifficulty, rating),
                  currentStability, now, u1, u2)
       ELSE
         SchedulingResult("learning", currentDifficulty, currentStability,
                          SC, 0, addMinutes(now, intervalMinutes), nextStep,
                          TRUE)

reviewDayPhase(progress, rating, now, u1) ==
  LET difficulty == progress.difficulty
      stability == progress.stability
      retr == retrievability(progress.elapsed_days, stability)
  IN
  IF rating = 1 THEN
    SchedulingResult("relearning", nextDifficulty(difficulty, rating),
                     nextStabilityFailure(difficulty, stability, retr), 0, 0,
                     addMinutes(now, LEARNING_STEPS(1)), 0, TRUE)
  ELSE
    LET newDifficulty == nextDifficulty(difficulty, rating)
        newStability == nextStabilitySuccess(difficulty, stability, retr, rating)
        interval == Max(1, Min(nextInterval(newStability), maximumInterval))
        fuzzedInterval == fuzzInterval(interval, u1)
    IN SchedulingResult("review", newDifficulty, newStability,
                        retrievability(0, newStability), fuzzedInterval,
                        addDays(now, fuzzedInterval), 0, FALSE)

\* Whether review() takes record r through reviewLearningPhase.
InLearningPhase(r) ==
  r.is_learning_phase \/ r.state = "new" \/ r.state = "learning"

review(progress, rating, now, u1, u2) ==
  IF progress.is_learning_phase \/ progress.state = "new"
       \/ progress.state = "learning"
  THEN reviewLearningPhase(progress, rating, now, u1, u2)
  ELSE reviewDayPhase(progress, rating, now, u1)

(***************************************************************************)
(* fsrs.ts: getSchedulePreview.  A label such as "10m" or "2mo" is the      *)
(* pair of its number and its unit.                                         *)
(***************************************************************************)
Label(n, unit) == [n |-> n, unit |-> unit]

\* Math.round(a / b) for whole numbers a >= 0, b > 0.
RoundDiv(a, b) == (2 * a + b) \div (2 * b)

MinutesLabel(minutes) ==
  IF minutes < 60 THEN Label(minutes, "m")
  ELSE Label(RoundDiv(minutes, 60), "h")

DaysLabel(days) ==
  IF days = 1 THEN Label(1, "d")
  ELSE IF days < 30 THEN Label(days, "d")
  ELSE IF days < 365 THEN Label(RoundDiv(days, 30), "mo")
  ELSE Label(RoundDiv(days, 365), "y")

\* The label of one result; now is the preview's own clock reading.
PreviewLabel(result, now) ==
  IF result.is_learning_phase
  THEN MinutesLabel(result.due_at - now)
  ELSE DaysLabel(result.scheduled_days)

\* draws[rating] is the pair of draws of the preview's call for that rating.
getSchedulePreview(progress, now, draws) ==
  [rating \in Ratings |->
     PreviewLabel(review(progress, rating, now, draws[rating][1],
                         draws[rating][2]), now)]

\* createInitialWordProgress: the scheduling fields of the new row.
createInitialWordProgress(now) ==
  [ state |-> "new", difficulty |-> 0, stability |-> 0,
    retrievability |-> SC, elapsed_days |-> 0, scheduled_days |-> 0,
    reps |-> 0, lapses |-> 0, learning_step |-> 0,
    is_learning_phase |-> TRUE, last_review_at |-> Null,
    due_at |-> now, total_reviews |-> 0, correct_reviews |-> 0 ]

\* Mutant: a stability of exactly 21 days already counts as mastered.
stateToMasteryLevelAtLeast(state, stability) ==
  IF state = "new" THEN "new"
  ELSE IF state = "review" /\ stability >= 21 * SC THEN "mastered"
  ELSE "learning"

stateToMasteryLevel(state, stability) ==
  IF state = "new" THEN "new"
  ELSE IF state = "review" /\ stability > 21 * SC THEN "mastered"
  ELSE "learning"

\* The FSRS migration's rewrite of pre-FSRS rows: 'learning' rows get
\* stability 3, 'reviewing' rows stability >= 7, 'mastered' rows stability
\* >= 21; difficulty is 5 or (5 - ease_factor) * 2.  A sample of those rows.
MigratedRecords ==
  { [ createInitialWordProgress(0) EXCEPT
        !.state = "learning", !.stability = 3 * SC, !.difficulty = 5 * SC ] }
  \cup
  { [ createInitialWordProgress(0) EXCEPT
        !.state = "review", !.is_learning_phase = FALSE,
        !.stability = sd[1], !.difficulty = sd[2], !.scheduled_days = 7 ] :
      sd \in { <<7 * SC, 5 * SC>>, <<30 * SC, 74 * (SC \div 10)>>,
               <<maximumInterval * SC, 5 * SC>> } }

(***************************************************************************)
(* State                                                                    *)
(***************************************************************************)
VARIABLES
  now,      \* the clock, in minutes
  ticks,    \* how often the clock has advanced
  rec,      \* scheduler harness: the record under review
  origin,   \* scheduler harness: the record the harness started from
  hist,     \* scheduler harness: the ratings applied to origin, in order
  call,     \* scheduler harness: the last call of review() and its result
  pv,       \* scheduler harness: the last getSchedulePreview and its labels
  uwp,      \* table user_word_progress of one user and book: word -> row
  ubp,      \* table user_book_progress: the row of that user and book
  logs,     \* table review_logs, in insertion order
  procs,    \* the calls of processWordReview in flight: locals and position
  sess,     \* the call of getTodayLearningSession in flight
  session,  \* what the last getTodayLearningSession returned
  commits,  \* word -> how many updates of its row have been committed
  calls,    \* how many calls of processWordReview have been started
  fails     \* how many storage operations have failed

fsrsVars == <<rec, origin, hist, call, pv>>
dbVars == <<uwp, ubp, logs, procs, sess, session, commits, calls, fails>>
vars == <<now, ticks, rec, origin, hist, call, pv, uwp, ubp, logs, procs,
          sess, session, commits, calls, fails>>

\* Bounds of the model.
MaxReviews == 2
MaxTicks == 1
MaxElapsed == 30

NoCall == [rating |-> 0]
NoPreview == [taken |-> FALSE]

\* A rating outside 1..4, as an untyped caller can pass it.
MalformedRatings == {5}

ElapsedDays == {0, MaxElapsed}

\* The records the harness starts from: a fresh row, and migrated rows as a
\* caller may pass them, with the elapsed_days it has computed.
InitialRecords ==
  {createInitialWordProgress(0)}
  \cup { [r EXCEPT !.elapsed_days = e] : r \in MigratedRecords,
                                        e \in ElapsedDays }

\* Clock steps: a minute, a learning step, a day.
FsrsTickSteps == {10, MinutesPerDay}

\* Mutant: reps counts the Good and Easy ratings only.
ApplyUpdateRepsOnGood(progress, result, rating, at) ==
  [ progress EXCEPT
      !.state = result.state,
      !.difficulty = result.difficulty,
      !.stability = result.stability,
      !.retrievability = result.retrievability,
      !.elapsed_days = result.elapsed_days,
      !.scheduled_days = result.scheduled_days,
      !.due_at = result.due_at,
      !.learning_step = result.learning_step,
      !.is_learning_phase = result.is_learning_phase,
      !.last_review_at = at,
      !.total_reviews = progress.total_reviews + 1,
      !.correct_reviews =
         IF rating >= 3 THEN progress.correct_reviews + 1
         ELSE progress.correct_reviews,
      !.reps = IF rating >= 3 THEN progress.reps + 1 ELSE progress.reps,
      !.lapses = IF rating = 1 THEN progress.lapses + 1 ELSE progress.lapses ]

\* processWordReview's updateData merged into the row it updates.
ApplyUpdate(progress, result, rating, at) ==
  [ progress EXCEPT
      !.state = result.state,
      !.difficulty = result.difficulty,
      !.stability = result.stability,
      !.retrievability = result.retrievability,
      !.elapsed_days = result.elapsed_days,
      !.scheduled_days = result.scheduled_days,
      !.due_at = result.due_at,
      !.learning_step = result.learning_step,
      !.is_learning_phase = result.is_learning_phase,
      !.last_review_at = at,
      !.total_reviews = progress.total_reviews + 1,
      !.correct_reviews =
         IF rating >= 3 THEN progress.correct_reviews + 1
         ELSE progress.correct_reviews,
      !.reps = IF rating >= 2 THEN progress.reps + 1 ELSE progress.reps,
      !.lapses = IF rating = 1 THEN progress.lapses + 1 ELSE progress.lapses ]

(***************************************************************************)
(* Storage.  The book has the words 1 .. NumWords, in the order the         *)
(* vocabulary_words query returns them.  user_word_progress holds at most   *)
(* one row per (user, word): processWordReview reads it with .single() and  *)
(* updates it by the id it read, so a row's id stands for its word.         *)
(***************************************************************************)
NumWords == 2
NumProcs == 2
MaxCalls == 2
MaxFails == 1

Words == 1..NumWords
Procs == 1..NumProcs

NoRow == [state |-> "absent"]

\* The calendar date of an instant (toISOString().split('T')[0]), as a day
\* number.
DateOf(t) == t \div MinutesPerDay

\* The stats CTE of update_book_progress_stats over the rows of table t.
StatsOf(t) ==
  LET rows == {x \in Words : t[x] # NoRow}
  IN [ mastered |-> Cardinality({x \in rows :
                      t[x].state = "review" /\ t[x].stability > 21 * SC}),
       learning |-> Cardinality({x \in rows :
                      \/ t[x].state \in {"learning", "relearning"}
                      \/ t[x].state = "review" /\ t[x].stability <= 21 * SC}),
       new_words |-> Cardinality({x \in rows : t[x].state = "new"}) ]

\* trg_update_book_stats: after an insert or update of a row, the book row
\* (if there is one) gets the counts of the table as written, t.
update_book_progress_stats(t, book) ==
  IF book = NoRow THEN NoRow
  ELSE [ book EXCEPT !.mastered_count = StatsOf(t).mastered,
                     !.learning_count = StatsOf(t).learning,
                     !.new_count = StatsOf(t).new_words ]

\* The row updateBookProgressStats inserts when it read none.
FirstBookProgress(isNewWord, today) ==
  [ mastered_count |-> 0, learning_count |-> 0, new_count |-> 0,
    streak_days |-> 1, total_reviews |-> 1, reviews_today |-> 1,
    new_words_today |-> IF isNewWord THEN 1 ELSE 0,
    last_review_date |-> today, daily_new_limit |-> 20 ]

\* The row initializeBookProgress inserts.
InitialBookProgress(wordCount) ==
  [ mastered_count |-> 0, learning_count |-> 0, new_count |-> wordCount,
    streak_days |-> 0, total_reviews |-> 0, reviews_today |-> 0,
    new_words_today |-> 0, last_review_date |-> Null,
    daily_new_limit |-> 20 ]

\* Mutant: any later day counts as the next day.
isConsecutiveDayOrLater(date1, date2) ==
  IF date1 = Null THEN FALSE ELSE date2 - date1 >= 1

isConsecutiveDay(date1, date2) ==
  IF date1 = Null THEN FALSE ELSE date2 - date1 = 1

\* updateBookProgressStats' updateData merged into the row it updates; bp is
\* the row as the call read it.
BookUpdate(row, bp, isNewWord, today) ==
  LET isNewDay == bp.last_review_date # today
      newStreak == IF isNewDay
                   THEN IF isConsecutiveDay(bp.last_review_date, today)
                        THEN bp.streak_days + 1 ELSE 1
                   ELSE bp.streak_days
  IN [ row EXCEPT
         !.total_reviews = bp.total_reviews + 1,
         !.reviews_today = IF isNewDay THEN 1 ELSE bp.reviews_today + 1,
         !.new_words_today =
            IF isNewDay THEN (IF isNewWord THEN 1 ELSE 0)
            ELSE IF isNewWord THEN bp.new_words_today + 1
            ELSE bp.new_words_today,
         !.last_review_date = today,
         !.streak_days = newStreak ]

\* How many times review(r, rating, ...) calls fuzzInterval: twice when it
\* graduates from the learning phase, once on a success in the day phase.
FuzzCalls(r, rating) ==
  IF r.is_learning_phase \/ r.state = "new" \/ r.state = "learning"
  THEN IF rating = 1 THEN 0
       ELSE IF rating = 4 THEN 2
       ELSE IF r.state = "new"
         THEN IF (IF rating = 3 THEN 1 ELSE 0) >= LEARNING_GRADUATION_STEPS
              THEN 2 ELSE 0
       ELSE IF r.learning_step + (IF rating = 3 THEN 1 ELSE 0)
                 >= LEARNING_GRADUATION_STEPS
         THEN 2 ELSE 0
  ELSE IF rating = 1 THEN 0 ELSE 1

\* The draws to try for the n-th call of fuzzInterval of a transition.
DrawsOf(r, rating, n) == IF FuzzCalls(r, rating) >= n THEN Draws ELSE {0}

\* The locals of a call of processWordReview that has not started; ret is
\* what the last call returned.
IdleProc ==
  [ pc |-> "idle", word |-> 0, rating |-> 0, at |-> 0, before |-> NoRow,
    progress |-> NoRow, isNew |-> FALSE, updated |-> NoRow, today |-> 0,
    bookProgress |-> NoRow, ret |-> "none" ]

Idle == [pc |-> "idle"]

DbInit ==
  /\ uwp = [x \in Words |-> NoRow]
  /\ ubp = NoRow
  /\ logs = << >>
  /\ procs = [p \in Procs |-> IdleProc]
  /\ sess = Idle
  /\ session = Idle
  /\ commits = [x \in Words |-> 0]
  /\ calls = 0
  /\ fails = 0

\* Whether a storage operation succeeds: it may fail while the budget of
\* failures lasts.
Outcomes(maxFails) == IF fails < maxFails THEN {TRUE, FALSE} ELSE {TRUE}

Failed(ok) == fails' = IF ok THEN fails ELSE fails + 1

Return(p, value) ==
  procs' = [procs EXCEPT ![p] = [IdleProc EXCEPT !.ret = value]]

(***************************************************************************)
(* vocabulary-detail.ts: processWordReview, one action per storage          *)
(* operation it awaits.                                                     *)
(***************************************************************************)
\* The call: rating and now are fixed before the first await.  Calls are
\* told apart by the process they run in, and a call takes the lowest idle
\* one.
PwrCall(p, wordId, grade) ==
  /\ procs[p].pc = "idle"
  /\ \A q \in Procs : q < p => procs[q].pc # "idle"
  /\ calls < MaxCalls
  /\ calls' = calls + 1
  /\ procs' = [procs EXCEPT ![p] =
       [IdleProc EXCEPT !.pc = "select", !.word = wordId,
                        !.rating = GRADE_TO_RATING(grade), !.at = now,
                        !.before = uwp[wordId]]]
  /\ UNCHANGED <<now, ticks, fsrsVars, uwp, ubp, logs, sess, session,
                 commits, fails>>

\* select * from user_word_progress ... .single(): no row, or an error,
\* leaves progress null.
PwrSelect(p, ok) ==
  /\ procs[p].pc = "select"
  /\ Failed(ok)
  /\ LET row == IF ok THEN uwp[procs[p].word] ELSE NoRow
     IN procs' = [procs EXCEPT
          ![p].pc = IF row = NoRow THEN "insert" ELSE "update",
          ![p].progress = row,
          ![p].isNew = (row = NoRow)]
  /\ UNCHANGED <<now, ticks, fsrsVars, uwp, ubp, logs, sess, session,
                 commits, calls>>

\* insert(createInitialWordProgress(...)): an error (also that of a second
\* row for the word) returns null.
PwrInsert(p, ok) ==
  /\ procs[p].pc = "insert"
  /\ Failed(ok)
  /\ LET wordId == procs[p].word
         initial == createInitialWordProgress(now)
     IN IF ok /\ uwp[wordId] = NoRow
        THEN /\ uwp' = [uwp EXCEPT ![wordId] = initial]
             /\ ubp' = update_book_progress_stats(uwp', ubp)
             /\ procs' = [procs EXCEPT ![p].pc = "update",
                                       ![p].progress = initial]
        ELSE /\ Return(p, "null")
             /\ UNCHANGED <<uwp, ubp>>
  /\ UNCHANGED <<now, ticks, fsrsVars, logs, sess, session, commits, calls>>

\* fsrsScheduler.review(progress, rating, now) and the update of the row by
\* its id; an error returns null.
PwrUpdate(p, ok, u1, u2) ==
  /\ procs[p].pc = "update"
  /\ Failed(ok)
  /\ LET wordId == procs[p].word
         progress == procs[p].progress
     IN \E result \in {review(progress, procs[p].rating, procs[p].at, u1, u2)} :
          IF ok
          THEN /\ uwp' = [uwp EXCEPT ![wordId] =
                            ApplyUpdate(progress, result, procs[p].rating,
                                        procs[p].at)]
               /\ ubp' = update_book_progress_stats(uwp', ubp)
               /\ commits' = [commits EXCEPT ![wordId] = @ + 1]
               /\ procs' = [procs EXCEPT ![p].pc = "log",
                                         ![p].updated = uwp'[wordId]]
          ELSE /\ Return(p, "null")
               /\ UNCHANGED <<uwp, ubp, commits>>
  /\ UNCHANGED <<now, ticks, fsrsVars, logs, sess, session, calls>>

\* logReview: the insert's error is not looked at.
logReview(p, ok) ==
  /\ procs[p].pc = "log"
  /\ Failed(ok)
  /\ logs' = IF ok
             THEN Append(logs, [ word_id |-> procs[p].word,
                                 rating |-> procs[p].rating,
                                 state_before |-> procs[p].progress.state,
                                 state_after |-> procs[p].updated.state ])
             ELSE logs
  /\ procs' = [procs EXCEPT ![p].pc = "stats"]
  /\ UNCHANGED <<now, ticks, fsrsVars, uwp, ubp, sess, session, commits,
                 calls>>

\* updateBookProgressStats, first half: today, and the select of the book
\* row (.single(): no row, or an error, leaves bookProgress null).
StatsSelect(p, ok) ==
  /\ procs[p].pc = "stats"
  /\ Failed(ok)
  /\ procs' = [procs EXCEPT ![p].pc = "statsWrite",
                            ![p].today = DateOf(now),
                            ![p].bookProgress = IF ok THEN ubp ELSE NoRow]
  /\ UNCHANGED <<now, ticks, fsrsVars, uwp, ubp, logs, sess, session,
                 commits, calls>>

\* updateBookProgressStats, second half: the insert of the first row, or the
\* update of the row read; neither error is looked at.  processWordReview
\* then returns the updated progress row.
StatsWrite(p, ok) ==
  /\ procs[p].pc = "statsWrite"
  /\ Failed(ok)
  /\ LET bp == procs[p].bookProgress
     IN ubp' = IF ~ok THEN ubp
               ELSE IF bp = NoRow
                 THEN IF ubp = NoRow
                      THEN FirstBookProgress(procs[p].isNew, procs[p].today)
                      ELSE ubp
               ELSE BookUpdate(ubp, bp, procs[p].isNew, procs[p].today)
  /\ Return(p, "row")
  /\ UNCHANGED <<now, ticks, fsrsVars, uwp, logs, sess, session, commits,
                 calls>>

\* initializeBookProgress: "start learning this book".
initializeBookProgress ==
  /\ ubp = NoRow
  /\ ubp' = InitialBookProgress(NumWords)
  /\ UNCHANGED <<now, ticks, fsrsVars, uwp, logs, procs, sess, session,
                 commits, calls, fails>>

\* Time passes, at most maxTicks times in a run.
Tick(dt, maxTicks) ==
  /\ ticks < maxTicks
  /\ now' = now + dt
  /\ ticks' = ticks + 1
  /\ UNCHANGED <<fsrsVars, dbVars>>

(***************************************************************************)
(* vocabulary-detail.ts: getTodayLearningSession, one action per query.     *)
(***************************************************************************)
MaxLimit == 1

Limits == 0..MaxLimit

\* The words that have a row in table t.
RowsOf(t) == {x \in Words : t[x] # NoRow}

\* The rows of table t that are due at instant at.
DueWords(t, at) == {x \in Words : t[x] # NoRow /\ t[x].due_at <= at}

\* .lte("due_at", now).order("due_at").limit(reviewLimit): the first rows in
\* the order of due_at; rows with the same due_at come in any order.
DueQuery(t, at, reviewLimit) ==
  LET due == DueWords(t, at)
      k == Min(reviewLimit, Cardinality(due))
  IN { sq \in [1..k -> due] :
         /\ \A i, j \in 1..k : i < j => sq[i] # sq[j]
         /\ \A i, j \in 1..k : i < j => t[sq[i]].due_at <= t[sq[j]].due_at
         /\ \A y \in due \ {sq[i] : i \in 1..k} :
              \A i \in 1..k : t[sq[i]].due_at <= t[y].due_at }

\* (allWords).filter(w => !existingWordIds.has(w.id)).slice(0, newLimit)
\* Mutant: nothing is filtered out.
FilterNewNone(ws, existing) == ws

RECURSIVE FilterNew(_, _)
FilterNew(ws, existing) ==
  IF ws = << >> THEN << >>
  ELSE IF Head(ws) \in existing THEN FilterNew(Tail(ws), existing)
  ELSE <<Head(ws)>> \o FilterNew(Tail(ws), existing)

\* Mutant: the slice keeps one element more.
SliceOneMore(sq, n) == SubSeq(sq, 1, Min(n + 1, Len(sq)))

\* Array.prototype.slice(0, n) for a count n.
Slice(sq, n) == SubSeq(sq, 1, Min(n, Len(sq)))

AllWords == [i \in 1..NumWords |-> i]

\* Math.ceil(totalCount * 0.5)
EstimatedMinutes(totalCount) == (totalCount + 1) \div 2

SessCall(newLimit, reviewLimit) ==
  /\ sess.pc = "idle"
  /\ session.pc = "idle"
  /\ sess' = [ pc |-> "due", at |-> now, newLimit |-> newLimit,
               reviewLimit |-> reviewLimit, reviewWords |-> << >>,
               pool |-> [x \in Words |-> NoRow] ]
  /\ UNCHANGED <<now, ticks, fsrsVars, uwp, ubp, logs, procs, session,
                 commits, calls, fails>>

\* The query of the due rows; pool keeps the table as the query saw it.
SessDue(sq) ==
  /\ sess.pc = "due"
  /\ sq \in DueQuery(uwp, sess.at, sess.reviewLimit)
  /\ sess' = [sess EXCEPT
                !.pc = "existing",
                !.pool = uwp,
                !.reviewWords =
                   [i \in 1..Len(sq) |-> [ id |-> sq[i],
                                           state |-> uwp[sq[i]].state,
                                           stability |-> uwp[sq[i]].stability,
                                           due_at |-> uwp[sq[i]].due_at ]]]
  /\ UNCHANGED <<now, ticks, fsrsVars, uwp, ubp, logs, procs, session,
                 commits, calls, fails>>

\* The query of the book's words, which no operation writes, then the query
\* of the words that have a row, and the return.
SessExisting ==
  /\ sess.pc = "existing"
  /\ LET existingWordIds == {x \in Words : uwp[x] # NoRow}
         newWords == Slice(FilterNew(AllWords, existingWordIds),
                           sess.newLimit)
         totalCount == Len(sess.reviewWords) + Len(newWords)
     IN session' = [ pc |-> "returned", at |-> sess.at, pool |-> sess.pool,
                     newLimit |-> sess.newLimit,
                     reviewLimit |-> sess.reviewLimit,
                     reviewWords |-> sess.reviewWords,
                     newWords |-> newWords,
                     totalCount |-> totalCount,
                     estimatedMinutes |-> EstimatedMinutes(totalCount) ]
  /\ sess' = Idle
  /\ UNCHANGED <<now, ticks, fsrsVars, uwp, ubp, logs, procs, commits, calls,
                 fails>>

\* getDefaultStats(totalWords)
getDefaultStats(totalWords) ==
  [ pc |-> "stats", totalWords |-> totalWords, mastered |-> 0,
    learning |-> 0, newWords |-> totalWords, todayReview |-> 0,
    todayNew |-> Min(20, totalWords),
    estimatedMinutes |-> Min(10, totalWords), streak |-> 0 ]

\* value || fallback for a number or null: 0 and null are falsy.
OrElse(value, fallback) ==
  IF value = Null \/ value = 0 THEN fallback ELSE value

\* The words of table t that stateToMasteryLevel puts at the given level.
AtLevel(t, level) ==
  {x \in RowsOf(t) : stateToMasteryLevel(t[x].state, t[x].stability) = level}

\* calculateBookStats(bookId, userId, book.word_count), first half: now, the
\* query of the progress rows and the counts over them; with no rows it
\* returns the default stats.
StatsProgress ==
  /\ sess.pc = "idle"
  /\ session.pc = "idle"
  /\ IF RowsOf(uwp) = {}
     THEN /\ session' = getDefaultStats(NumWords)
          /\ sess' = sess
     ELSE /\ sess' = [ pc |-> "book",
                       mastered |-> Cardinality(AtLevel(uwp, "mastered")),
                       learning |-> Cardinality(AtLevel(uwp, "learning")),
                       todayReview |-> Cardinality(DueWords(uwp, now)),
                       newWords |-> NumWords - Cardinality(RowsOf(uwp)) ]
          /\ session' = session
  /\ UNCHANGED <<now, ticks, fsrsVars, uwp, ubp, logs, procs, commits, calls,
                 fails>>

\* calculateBookStats, second half: the query of the book row (.single():
\* null when there is none), todayNew and the return.
StatsBook ==
  /\ sess.pc = "book"
  /\ LET dailyNewLimit ==
           OrElse(IF ubp = NoRow THEN Null ELSE ubp.daily_new_limit, 20)
         todayNew == Min(dailyNewLimit, sess.newWords)
     IN session' = [ pc |-> "stats", totalWords |-> NumWords,
                     mastered |-> sess.mastered,
                     learning |-> sess.learning,
                     newWords |-> sess.newWords,
                     todayReview |-> sess.todayReview,
                     todayNew |-> todayNew,
                     estimatedMinutes |->
                        EstimatedMinutes(sess.todayReview + todayNew),
                     streak |-> OrElse(IF ubp = NoRow THEN Null
                                       ELSE ubp.streak_days, 0) ]
  /\ sess' = Idle
  /\ UNCHANGED <<now, ticks, fsrsVars, uwp, ubp, logs, procs, commits, calls,
                 fails>>

(***************************************************************************)
(* Specifications of the stored system                                      *)
(***************************************************************************)
\* One step of processWordReview in process p, with at most maxFails
\* failing storage operations in the run.
Pwr(p, maxFails) ==
  \/ \E wordId \in Words, grade \in Grades : PwrCall(p, wordId, grade)
  \/ \E ok \in Outcomes(maxFails) : PwrSelect(p, ok)
  \/ \E ok \in Outcomes(maxFails) : PwrInsert(p, ok)
  \/ /\ procs[p].pc = "update"
     /\ \E ok \in Outcomes(maxFails) :
          \E u1 \in DrawsOf(procs[p].progress, procs[p].rating, 1),
             u2 \in DrawsOf(procs[p].progress, procs[p].rating, 2) :
            PwrUpdate(p, ok, u1, u2)
  \/ \E ok \in Outcomes(maxFails) : logReview(p, ok)
  \/ \E ok \in Outcomes(maxFails) : StatsSelect(p, ok)
  \/ \E ok \in Outcomes(maxFails) : StatsWrite(p, ok)

Init ==
  /\ now = 0
  /\ ticks = 0
  /\ rec = createInitialWordProgress(0)
  /\ origin = rec
  /\ hist = << >>
  /\ call = NoCall
  /\ pv = NoPreview
  /\ DbInit

\* Reviews by concurrent sessions of the user, with every storage operation
\* succeeding; time passes by days.
TickSteps == {MinutesPerDay}

Next ==
  \/ \E p \in Procs : Pwr(p, 0)
  \/ initializeBookProgress
  \/ \E dt \in TickSteps : Tick(dt, MaxTicks)

Spec == Init /\ [][Next]_vars

\* One session reviewing while storage operations may fail.
NextFail ==
  \/ Pwr(1, MaxFails)
  \/ initializeBookProgress

SpecFail == Init /\ [][NextFail]_vars

\* One session reviewing, a call after the other, on the same day, on the
\* next day or after a day without a review.
DailyTickSteps == {MinutesPerDay, 2 * MinutesPerDay}

NextDaily ==
  \/ Pwr(1, 0)
  \/ initializeBookProgress
  \/ \E dt \in DailyTickSteps : Tick(dt, MaxTicks)

SpecDaily == Init /\ [][NextDaily]_vars

\* One session reviewing while getTodayLearningSession runs; time passes by
\* weeks, so that a word rated Easy comes due.
SessionTickSteps == {7 * MinutesPerDay}
MaxSessionTicks == 2

NextSession ==
  \/ Pwr(1, 0)
  \/ \E dt \in SessionTickSteps : Tick(dt, MaxSessionTicks)
  \/ \E newLimit, reviewLimit \in Limits : SessCall(newLimit, reviewLimit)
  \/ /\ sess.pc = "due"
     /\ \E sq \in DueQuery(uwp, sess.at, sess.reviewLimit) : SessDue(sq)
  \/ SessExisting

SpecSession == Init /\ [][NextSession]_vars

\* The values of user_book_progress.daily_new_limit the table holds when the
\* services start: the column is an INTEGER with DEFAULT 20 and no CHECK,
\* and the services only read it after they have inserted the row.
StoredLimits == {0, 1}

LimitsInit ==
  /\ now = 0
  /\ ticks = 0
  /\ rec = createInitialWordProgress(0)
  /\ origin = rec
  /\ hist = << >>
  /\ call = NoCall
  /\ pv = NoPreview
  /\ uwp = [x \in Words |-> NoRow]
  /\ ubp \in {NoRow} \cup
             {[InitialBookProgress(NumWords) EXCEPT !.daily_new_limit = l] :
                l \in StoredLimits}
  /\ logs = << >>
  /\ procs = [p \in Procs |-> IdleProc]
  /\ sess = Idle
  /\ session = Idle
  /\ commits = [x \in Words |-> 0]
  /\ calls = 0
  /\ fails = 0

\* One session reviewing while getTodayLearningSession or calculateBookStats
\* runs once; a week may pass.
NextLimits ==
  \/ Pwr(1, 0)
  \/ \E newLimit \in Limits, reviewLimit \in Limits :
       SessCall(newLimit, reviewLimit)
  \/ sess.pc = "due" /\ \E sq \in DueQuery(uwp, sess.at, sess.reviewLimit) :
       SessDue(sq)
  \/ SessExisting
  \/ StatsProgress
  \/ StatsBook
  \/ \E dt \in SessionTickSteps : Tick(dt, MaxTicks)

SpecLimits == LimitsInit /\ [][NextLimits]_vars

(***************************************************************************)
(* The scheduler on its own: a harness that feeds review() its own result.  *)
(***************************************************************************)
FsrsInit ==
  /\ now = 0
  /\ ticks = 0
  /\ rec \in InitialRecords
  /\ origin = rec
  /\ hist = << >>
  /\ call = NoCall
  /\ pv = NoPreview
  /\ DbInit

\* review(rec, rating, now); the result is fed back as processWordReview
\* stores it.  A preview is remembered only if it was taken of the same
\* input at the same instant.
FsrsReview(rating, u1, u2) ==
  /\ Len(hist) < MaxReviews
  /\ \E result \in {review(rec, rating, now, u1, u2)} :
       /\ call' = [rating |-> rating, progress |-> rec, at |-> now,
                   result |-> result]
       /\ rec' = ApplyUpdate(rec, result, rating, now)
  /\ pv' = IF pv.taken /\ pv.progress = rec /\ pv.at = now
           THEN pv ELSE NoPreview
  /\ hist' = Append(hist, rating)
  /\ UNCHANGED <<now, ticks, origin, dbVars>>

\* review() called with a rating that is no FSRSRating; nothing is stored.
FsrsReviewMalformed(rating, u1, u2) ==
  /\ Len(hist) < MaxReviews
  /\ \E result \in {review(rec, rating, now, u1, u2)} :
       call' = [rating |-> rating, progress |-> rec, at |-> now,
                result |-> result]
  /\ pv' = NoPreview
  /\ UNCHANGED <<now, ticks, rec, origin, hist, dbVars>>

\* getSchedulePreview(rec); every rating's call draws u1, u2.
FsrsPreview(u1, u2) ==
  /\ Len(hist) < MaxReviews
  /\ pv' = [taken |-> TRUE, progress |-> rec, at |-> now,
            labels |-> getSchedulePreview(rec, now,
                         [r \in Ratings |-> <<u1, u2>>])]
  /\ call' = NoCall
  /\ UNCHANGED <<now, ticks, rec, origin, hist, dbVars>>

\* Time passes.  What the harness remembers of the last call and the last
\* preview is dropped: both are compared at the instant of the call.
FsrsTick(dt) ==
  /\ ticks < MaxTicks
  /\ now' = now + dt
  /\ ticks' = ticks + 1
  /\ call' = NoCall
  /\ pv' = NoPreview
  /\ UNCHANGED <<rec, origin, hist, dbVars>>

FsrsNext ==
  \/ \E rating \in Ratings :
        \E u1 \in DrawsOf(rec, rating, 1), u2 \in DrawsOf(rec, rating, 2) :
          FsrsReview(rating, u1, u2)
  \/ \E rating \in MalformedRatings :
        \E u1 \in DrawsOf(rec, rating, 1), u2 \in DrawsOf(rec, rating, 2) :
          FsrsReviewMalformed(rating, u1, u2)
  \/ \E u1 \in DrawsOf(rec, 4, 1), u2 \in DrawsOf(rec, 4, 2) :
        FsrsPreview(u1, u2)
  \/ \E dt \in FsrsTickSteps : FsrsTick(dt)

SpecFsrs == FsrsInit /\ [][FsrsNext]_vars

(***************************************************************************)
(* Rating sequences on one fresh record, each result stored as              *)
(* processWordReview stores it.  The stored elapsed_days is what review()   *)
(* returned, so the instant of a review bears on due_at alone and the       *)
(* clock stands still here.                                                 *)
(***************************************************************************)
MaxSeq == 4

SeqInit ==
  /\ now = 0
  /\ ticks = 0
  /\ rec = createInitialWordProgress(0)
  /\ origin = rec
  /\ hist = << >>
  /\ call = NoCall
  /\ pv = NoPreview
  /\ DbInit

SeqReview(rating, u1, u2) ==
  /\ Len(hist) < MaxSeq
  /\ \E result \in {review(rec, rating, now, u1, u2)} :
       /\ call' = [rating |-> rating, progress |-> rec, at |-> now,
                   result |-> result]
       /\ rec' = ApplyUpdate(rec, result, rating, now)
  /\ hist' = Append(hist, rating)
  /\ UNCHANGED <<now, ticks, origin, pv, dbVars>>

SeqNext ==
  \E rating \in Ratings :
    \E u1 \in DrawsOf(rec, rating, 1), u2 \in DrawsOf(rec, rating, 2) :
      SeqReview(rating, u1, u2)

SpecSeq == SeqInit /\ [][SeqNext]_vars

(***************************************************************************)
(* The mastery projection against the trigger's counting rule: one row of   *)
(* any state and of a stability on or next to a whole number of days is     *)
(* classified by stateToMasteryLevel and counted by the stats CTE.          *)
(***************************************************************************)
MaxStabilityDays == 22

FSRSStates == {"new", "learning", "review", "relearning"}

Stabilities ==
  {s \in {d * SC + e : d \in 0..MaxStabilityDays, e \in {0 - 1, 0, 1}} :
     s >= 0}

MasteryInit ==
  /\ now = 0
  /\ ticks = 0
  /\ \E st \in FSRSStates, s \in Stabilities :
       rec = [createInitialWordProgress(0) EXCEPT
                !.state = st, !.stability = s,
                !.is_learning_phase = (st # "review")]
  /\ origin = rec
  /\ hist = << >>
  /\ call = NoCall
  /\ pv = NoPreview
  /\ DbInit

\* The table that holds rec as the row of word 1 and no other row.
TableOf(r) == [x \in Words |-> IF x = 1 THEN r ELSE NoRow]

Classify ==
  /\ call = NoCall
  /\ call' = [ rating |-> 0,
               level |-> stateToMasteryLevel(rec.state, rec.stability),
               counts |-> StatsOf(TableOf(rec)) ]
  /\ UNCHANGED <<now, ticks, rec, origin, hist, pv, dbVars>>

MasteryNext == Classify

SpecMastery == MasteryInit /\ [][MasteryNext]_vars

(***************************************************************************)
(* fuzzInterval on its own: every whole interval up to MaxInterval days,    *)
(* with draws spread over the range of Math.random().                       *)
(***************************************************************************)
MaxInterval == 40

Intervals == 1..MaxInterval

FuzzDraws == {0, 250, 500, 750, 999}

FuzzInit ==
  /\ now = 0
  /\ ticks = 0
  /\ rec = createInitialWordProgress(0)
  /\ origin = rec
  /\ hist = << >>
  /\ call = NoCall
  /\ pv = NoPreview
  /\ DbInit

Fuzz(interval, u) ==
  /\ call = NoCall
  /\ call' = [ rating |-> 0, interval |-> interval, draw |-> u,
               fuzzed |-> fuzzInterval(interval, u) ]
  /\ UNCHANGED <<now, ticks, rec, origin, hist, pv, dbVars>>

FuzzNext == \E interval \in Intervals, u \in FuzzDraws : Fuzz(interval, u)

SpecFuzz == FuzzInit /\ [][FuzzNext]_vars

(***************************************************************************)
(* Properties of the scheduler (checked under SpecFsrs)                     *)
(***************************************************************************)
ValidCall == call.rating \in Ratings

LearningStates == {"new", "learning", "relearning"}

\* C1: every record returned by review(record, rating, now) for a rating in
\* 1..4 is due at or after now, in the minute regime and in the day regime,
\* whatever the fuzz draws.
C1_MonotonicDueDates ==
  ValidCall => call.result.due_at >= call.at

\* C1 witness: a day-regime success at a time after 0 whose interval was
\* fuzzed (more than two days).
C1_Witness ==
  /\ ValidCall
  /\ call.at > 0
  /\ call.progress.state = "review"
  /\ call.result.state = "review"
  /\ call.result.scheduled_days > 2
  /\ call.result.due_at > call.at

\* C2: from state new, Good then Good ends in state review, and a single
\* Easy ends in state review.
C2_Graduation ==
  origin.state = "new" /\ (hist = <<3, 3>> \/ hist = <<4>>)
    => rec.state = "review" /\ ~rec.is_learning_phase

\* C2 witness: a new record that has been rated Good twice.
C2_Witness ==
  origin.state = "new" /\ hist = <<3, 3>> /\ rec.state = "review"

\* C3: the initial record and every record review() produces has
\* is_learning_phase = TRUE exactly in the states new, learning and
\* relearning (so state review has is_learning_phase = FALSE).
C3_PhaseStateInvariant ==
  /\ rec.is_learning_phase <=> rec.state \in LearningStates
  /\ ValidCall =>
       (call.result.is_learning_phase <=> call.result.state \in LearningStates)

\* C3 witness: a record that graduated to review and lapsed to relearning.
C3_Witness ==
  /\ origin.state = "new"
  /\ Len(hist) >= 2
  /\ ValidCall
  /\ call.progress.state = "review"
  /\ rec.state = "relearning"

\* No call of processWordReview is under way.
Quiescent == \A p \in Procs : procs[p].pc = "idle"

\* C4: once the calls of processWordReview have returned, the book row's
\* mastered_count and learning_count equal the counts recomputed from the
\* stored rows of user_word_progress; this includes the first review of a
\* book that has no user_book_progress row yet.
C4_AggregateConsistency ==
  (Quiescent /\ calls > 0 /\ ubp # NoRow)
    => /\ ubp.mastered_count = StatsOf(uwp).mastered
       /\ ubp.learning_count = StatsOf(uwp).learning

\* The label that describes the due delta of a committed result.
DueDeltaLabel(result, at) ==
  IF result.is_learning_phase
  THEN MinutesLabel(result.due_at - at)
  ELSE DaysLabel((result.due_at - at) \div MinutesPerDay)

\* C5: the label getSchedulePreview gives a rating describes the due delta
\* of the real review() call for that rating on the same record at the
\* same instant.
C5_PreviewConsistency ==
  (ValidCall /\ pv.taken /\ pv.progress = call.progress /\ pv.at = call.at)
    => pv.labels[call.rating] = DueDeltaLabel(call.result, call.at)

\* The words of the rows a returned session lists for review.
ReviewIds == {session.reviewWords[i].id : i \in 1..Len(session.reviewWords)}

\* The rows that were due when the session's due query ran.
SessionDue == DueWords(session.pool, session.at)

\* C6: a session returned by getTodayLearningSession has at most reviewLimit
\* review words and at most newLimit new words, and totalCount is the sum of
\* both lengths; a limit is a count (0 or more).
C6_SessionBounds ==
  session.pc = "returned" =>
    /\ Len(session.reviewWords) <= session.reviewLimit
    /\ Len(session.newWords) <= session.newLimit
    /\ session.totalCount = Len(session.reviewWords) + Len(session.newWords)

\* C6 witness: a session cut by its review limit: more rows were due than the
\* limit, and the limit was not 0.
C6_Witness ==
  /\ session.pc = "returned"
  /\ session.reviewLimit > 0
  /\ Cardinality(SessionDue) > session.reviewLimit
  /\ Len(session.reviewWords) = session.reviewLimit

\* C7: when more rows are due than the review limit, the session lists
\* exactly reviewLimit of them, and leaves out no due row in the learning
\* phase while it lists a due row that is not.
C7_SessionPriority ==
  (session.pc = "returned" /\ Cardinality(SessionDue) > session.reviewLimit)
    => /\ Len(session.reviewWords) = session.reviewLimit
       /\ ~ \E x \in SessionDue \ ReviewIds, y \in ReviewIds :
              /\ session.pool[x].is_learning_phase
              /\ ~session.pool[y].is_learning_phase

\* The words a returned session lists as new.
NewIds == {session.newWords[i] : i \in 1..Len(session.newWords)}

C8_WriteSerialization ==
  \A x \in Words : uwp[x] # NoRow => uwp[x].total_reviews = commits[x]

\* C9: a call of processWordReview that returns null leaves the word's row as
\* it was when the call began.
C9_NoPartialWrites ==
  [][\A p \in Procs :
       (procs[p].pc # "idle" /\ procs'[p].pc = "idle"
          /\ procs'[p].ret = "null")
         => uwp'[procs[p].word] = procs[p].before]_vars

\* C10: review() with a rating outside 1..4 yields no scheduling result.
C10_MalformedRatingRejected ==
  call.rating \in MalformedRatings => "state" \notin DOMAIN call.result

\* C20: a transition into state review returns scheduled_days >= 1 and a
\* due_at on or after now plus scheduled_days days, for every fuzz draw.
C20_DueMatchesScheduledDays ==
  (ValidCall /\ call.result.state = "review") =>
    /\ call.result.scheduled_days >= 1
    /\ call.result.due_at >= call.at + call.result.scheduled_days * MinutesPerDay

\* C21: Again on a record in state review outside the learning phase yields
\* state relearning in the learning phase at step 0, scheduled_days 0, due
\* one minute after now, and a stability no greater than before.
C21_LapseFromReview ==
  ( /\ ValidCall
    /\ call.rating = 1
    /\ call.progress.state = "review"
    /\ ~call.progress.is_learning_phase )
  => /\ call.result.state = "relearning"
     /\ call.result.is_learning_phase
     /\ call.result.learning_step = 0
     /\ call.result.scheduled_days = 0
     /\ call.result.due_at = call.at + 1
     /\ call.result.stability <= call.progress.stability

\* C21 witness: a lapse of a review record of stability 30 at a time after
\* 0, which lowers the stability.
C21_Witness ==
  /\ ValidCall
  /\ call.rating = 1
  /\ call.at > 0
  /\ call.progress.state = "review"
  /\ ~call.progress.is_learning_phase
  /\ call.progress.stability = 30 * SC
  /\ call.result.state = "relearning"
  /\ call.result.stability < 30 * SC

\* C25: the scheduled_days of a record returned by review() for a rating in
\* 1..4 is at most maximumInterval, whatever the fuzz draws.
C25_MaximumIntervalCap ==
  ValidCall => call.result.scheduled_days <= maximumInterval

(***************************************************************************)
(* Properties of the stored records and of the book row                     *)
(***************************************************************************)
\* C11: every stored row of user_word_progress, the row inserted by
\* createInitialWordProgress included, has 1 <= difficulty <= 10.
C11_DifficultyBounds ==
  \A x \in Words :
    uwp[x] # NoRow =>
      /\ uwp[x].difficulty >= 1 * SC
      /\ uwp[x].difficulty <= 10 * SC

\* The words of the book that have a row in user_word_progress.

\* C14: once the calls of processWordReview have returned, the book row's
\* new_count is the number of the book's words less the number of words
\* that have a row, the newWords of calculateBookStats.
C14_NewCountRule ==
  (Quiescent /\ calls > 0 /\ ubp # NoRow)
    => ubp.new_count = NumWords - Cardinality(RowsOf(uwp))

\* The step in which process p writes the book row, having read the row
\* that is stored now.
StatsWriteStep(p) ==
  /\ procs[p].pc = "statsWrite"
  /\ procs'[p].pc = "idle"
  /\ procs[p].bookProgress = ubp

\* C15: a review's write of the book row, made on the row as it is stored,
\* sets streak_days to 1 when there was no row or no last_review_date,
\* leaves it when last_review_date is today, adds 1 when last_review_date
\* is the day before today and sets it to 1 otherwise; so streak_days >= 1
\* after it.
C15_StreakBookkeeping ==
  [][\A p \in Procs :
       StatsWriteStep(p) =>
         LET today == procs[p].today
         IN /\ ubp'.streak_days =
                 IF ubp = NoRow THEN 1
                 ELSE IF ubp.last_review_date = Null THEN 1
                 ELSE IF ubp.last_review_date = today THEN ubp.streak_days
                 ELSE IF ubp.last_review_date = today - 1
                   THEN ubp.streak_days + 1
                 ELSE 1
            /\ ubp'.streak_days >= 1]_vars

\* C15 witness: a review on the day after the last review has raised the
\* streak to 2.
C15_Witness ==
  /\ ubp # NoRow
  /\ ubp.last_review_date = 1
  /\ ubp.streak_days = 2
  /\ ubp.total_reviews = 2

\* The entries of review_logs for word x.
LogsOf(x) == {i \in 1..Len(logs) : logs[i].word_id = x}

\* C16: once every call has returned, review_logs holds as many entries
\* for a word as updates of its scheduling record were committed, also
\* when storage operations have failed.
C16_LogOncePerTransition ==
  Quiescent => \A x \in Words : Cardinality(LogsOf(x)) = commits[x]

\* The step in which process p commits the update of its word's row.
UpdateStep(p) ==
  /\ procs[p].pc = "update"
  /\ procs'[p].pc = "log"

\* C19: a review rated Hard, Good or Easy of a row in state review whose
\* stability is below maximumInterval, made later than the row's
\* last_review_at, stores a stability greater than the row had.
C19_StabilityGrowsOnSuccess ==
  [][\A p \in Procs :
       ( /\ UpdateStep(p)
         /\ procs[p].progress.state = "review"
         /\ procs[p].progress.stability < maximumInterval * SC
         /\ procs[p].rating >= 2
         /\ procs[p].at > procs[p].progress.last_review_at )
       => uwp'[procs[p].word].stability > procs[p].progress.stability]_vars

CallsOnDifferentWords ==
  /\ Len(logs) = calls
  /\ \A i, j \in 1..Len(logs) : i # j => logs[i].word_id # logs[j].word_id

\* C30: once calls of processWordReview on different words have all
\* returned, the book row that their reviews have written counts every
\* one of them in total_reviews, and in reviews_today when they were all
\* made on the same day.
C30_BookCountersLoseNoReview ==
  ( /\ Quiescent
    /\ calls > 0
    /\ CallsOnDifferentWords
    /\ ubp # NoRow
    /\ ubp.last_review_date # Null )
  => /\ ubp.total_reviews = calls
     /\ ticks = 0 => ubp.reviews_today = calls

(***************************************************************************)
(* Properties of rating sequences (checked under SpecSeq)                   *)
(***************************************************************************)
\* C12: every record review() returns along a rating sequence on a fresh
\* record has stability >= 0.1.
C12_StabilityFloor ==
  ValidCall => call.result.stability >= SC \div 10

\* C12 witness: an Again on a learning record whose stability is already
\* 0.1, so that half of it would be below the floor.
C12_Witness ==
  /\ ValidCall
  /\ call.rating = 1
  /\ call.progress.state = "learning"
  /\ call.progress.stability = SC \div 10
  /\ call.result.stability = SC \div 10

\* How many of the ratings given so far lie in the set rs.
RatingsIn(rs) == Cardinality({i \in 1..Len(hist) : hist[i] \in rs})

\* C18: after a sequence of reviews of a record from its creation, reps is
\* the number of ratings Hard, Good and Easy, lapses the number of Again,
\* total_reviews their sum and correct_reviews the number of Good and Easy,
\* so correct_reviews <= reps <= total_reviews.
C18_ItemCounters ==
  /\ rec.reps = RatingsIn({2, 3, 4})
  /\ rec.lapses = RatingsIn({1})
  /\ rec.total_reviews = rec.reps + rec.lapses
  /\ rec.correct_reviews = RatingsIn({3, 4})
  /\ rec.correct_reviews <= rec.reps
  /\ rec.reps <= rec.total_reviews

\* C18 witness: a sequence with an Again, a Hard and a Good or Easy, so that
\* the four counters differ.
C18_Witness ==
  /\ Len(hist) >= 3
  /\ rec.lapses >= 1
  /\ rec.correct_reviews >= 1
  /\ rec.reps > rec.correct_reviews
  /\ rec.total_reviews > rec.reps

\* C22: Hard on a record in the learning phase yields a record in the
\* learning phase at the same learning_step; so a record that has only been
\* rated Hard since its creation is not in state review.
C22_HardNeverGraduates ==
  /\ (ValidCall /\ call.rating = 2 /\ InLearningPhase(call.progress)) =>
       /\ call.result.is_learning_phase
       /\ call.result.state = "learning"
       /\ call.result.learning_step = call.progress.learning_step
  /\ (hist # << >> /\ \A i \in 1..Len(hist) : hist[i] = 2) =>
       /\ rec.state = "learning"
       /\ rec.is_learning_phase

\* C22 witness: Hard on a record that a Good has taken to step 1.
C22_Witness ==
  /\ ValidCall
  /\ call.rating = 2
  /\ call.progress.state = "learning"
  /\ call.progress.learning_step = 1
  /\ call.result.learning_step = 1
  /\ rec.state = "learning"

\* C23: Again on a record in the learning phase yields state learning in
\* the learning phase at step 0, scheduled_days 0, due one minute after now;
\* the stability is the initial stability of Again for a new record, and
\* otherwise half the stability before, but at least 0.1.
C23_AgainInLearningPhase ==
  (ValidCall /\ call.rating = 1 /\ InLearningPhase(call.progress)) =>
    /\ call.result.state = "learning"
    /\ call.result.is_learning_phase
    /\ call.result.learning_step = 0
    /\ call.result.scheduled_days = 0
    /\ call.result.due_at = call.at + 1
    /\ call.result.stability =
         IF call.progress.state = "new" THEN initStability(1)
         ELSE Max(SC \div 10, call.progress.stability \div 2)

\* C23 witness: Again on a relearning record, which halves its stability.
C23_Witness ==
  /\ ValidCall
  /\ call.rating = 1
  /\ call.progress.state = "relearning"
  /\ call.progress.is_learning_phase
  /\ call.result.state = "learning"
  /\ call.result.stability < call.progress.stability
  /\ call.result.stability > SC \div 10

\* The fields of a row that processWordReview passes to review() and
\* review() reads, as they are after the update with the given result.
SchedulingInput(r) ==
  [ state |-> r.state, difficulty |-> r.difficulty,
    stability |-> r.stability, learning_step |-> r.learning_step,
    is_learning_phase |-> r.is_learning_phase,
    elapsed_days |-> r.elapsed_days ]

\* The rows one more processWordReview makes of the rows in S.  The review
\* time and the fuzz draws bear on due_at and scheduled_days alone, which
\* review() does not read.
ReviewedOnce(S) ==
  {SchedulingInput(review(r, rating, 0, 0, 0)) : r \in S, rating \in Ratings}

\* The rows that at most n calls of processWordReview make of a new row.
RECURSIVE ReachableWithin(_)
ReachableWithin(n) ==
  IF n = 0 THEN {SchedulingInput(createInitialWordProgress(0))}
  ELSE LET S == ReachableWithin(n - 1)
       IN S \cup ReviewedOnce(S)

MaxChain == 8

\* C27: some sequence of ratings (here: of at most MaxChain ratings) takes a
\* new row to state review with a stability above 21 days, where it is
\* classified mastered.
C27_MasteryReachable ==
  \E r \in ReachableWithin(MaxChain) :
     /\ r.state = "review"
     /\ r.stability > 21 * SC
     /\ stateToMasteryLevel(r.state, r.stability) = "mastered"

\* C28: a record reached from a new record by ratings has learning_step 0
\* or 1, below LEARNING_GRADUATION_STEPS, and learning_step 0 unless its
\* state is learning.
C28_LearningStepBound ==
  /\ rec.learning_step \in {0, 1}
  /\ rec.learning_step < LEARNING_GRADUATION_STEPS
  /\ rec.state \in {"new", "review", "relearning"} => rec.learning_step = 0

\* C28 witness: two Goods have graduated the record, by way of step 1.
C28_Witness ==
  /\ Len(hist) >= 2
  /\ hist[1] = 3
  /\ hist[2] = 3
  /\ rec.state = "review"
  /\ rec.learning_step = 0
  /\ call.progress.learning_step = 1

(***************************************************************************)
(* Properties of the mastery projection (checked under SpecMastery)         *)
(***************************************************************************)
Classified == "level" \in DOMAIN call

\* C13: stateToMasteryLevel says mastered exactly when the stats CTE counts
\* the row as mastered, learning exactly when it counts it as learning, and
\* new otherwise.
C13_MasteryProjection ==
  Classified =>
    /\ call.level = "mastered" <=> call.counts.mastered = 1
    /\ call.level = "learning" <=> call.counts.learning = 1
    /\ call.level = "new" <=>
         (call.counts.mastered = 0 /\ call.counts.learning = 0)

\* C13 witness: a review row of exactly 21 days of stability, which both
\* rules call learning.
C13_Witness ==
  /\ Classified
  /\ rec.state = "review"
  /\ rec.stability = 21 * SC
  /\ call.level = "learning"
  /\ call.counts.learning = 1

Fuzzed == "fuzzed" \in DOMAIN call

\* |a - b|
Distance(a, b) == IF a >= b THEN a - b ELSE b - a

\* C24: fuzzInterval(i) is i for i <= 2; for a longer interval it is at
\* least 1 and differs from i by at most max(1 day, 5% of i), that is,
\* 20 times the difference is at most max(20, i).
C24_FuzzBounds ==
  Fuzzed =>
    IF call.interval <= 2 THEN call.fuzzed = call.interval
    ELSE /\ call.fuzzed >= 1
         /\ 20 * Distance(call.fuzzed, call.interval) <= Max(20, call.interval)

====
